---- MODULE Spec2Model ----
(***************************************************************************)
(* Streaming delivery engine of the Feishu extension: the streaming card   *)
(* session (FeishuStreamingSession), the tenant-access-token cache         *)
(* (getToken) and the client-handle cache (createFeishuClient).            *)
(*                                                                         *)
(* Conventions.                                                            *)
(*  - Time is Date.now() in milliseconds, the variable now.                *)
(*  - A text is a sequence of one-character strings; NULL stands for       *)
(*    JavaScript's null/undefined where a text is expected.                *)
(*  - Every await of the source is a suspension point: the code before it  *)
(*    and the code after it are different actions.                         *)
(*  - An accountId is a number: 0 is the empty string "", 1 is "default",  *)
(*    every other number a distinct non-empty string.                      *)
(***************************************************************************)
EXTENDS Integers, Sequences, FiniteSets, TLC

VARIABLES
  now,                    \* Date.now()
  tokenCache,             \* dynamic-agent.ts tokenCache: key -> [token, expiresAt]
  lastTokenCacheCleanup,  \* dynamic-agent.ts lastTokenCacheCleanup
  tokenCalls,             \* direct getToken() calls: those in flight and the last ended
  clientCache,            \* client.ts clientCache, in Map insertion order
  clientCalls,            \* outcome of the last client-cache operation
  nextClient,             \* identity of the next Lark.Client constructed
  sess,                   \* the FeishuStreamingSession objects
  remote,                 \* the remote card service: ids handed out so far
  env,                    \* the environment the run is explored under
  calc                    \* a pure function applied on its own: its input and its result

vars == <<now, tokenCache, lastTokenCacheCleanup, tokenCalls, clientCache,
          clientCalls, nextClient, sess, remote, env, calc>>

tokenVars == <<tokenCache, lastTokenCacheCleanup, tokenCalls>>
clientVars == <<clientCache, clientCalls, nextClient>>
sessVars == <<sess, remote>>

----------------------------------------------------------------------------
(* Values *)

Undef == "undefined"
NULL == <<"null">>
NoExpire == 0 - 1

Falsy(v) == v = Undef \/ v = ""

Max(a, b) == IF a >= b THEN a ELSE b

\* x ?? y on texts
Coalesce(x, y) == IF x = NULL THEN y ELSE x

----------------------------------------------------------------------------
(* Bounds of the exploration *)

ClockStart == 1000
MaxStarts == 2
MaxUpdates == 3
MaxElapsed == 100
BreakerUpdates == 5
MaxTokenCalls == 2
MaxTokenTicks == 1
MaxClientOps == 2
MaxClientTicks == 1
PairUpdates == 1
LiveUpdates == 2

Texts == {<<>>, <<"a">>, <<"b">>}

----------------------------------------------------------------------------
(* Token cache: dynamic-agent.ts 298-360 *)

TOKEN_CACHE_CLEANUP_INTERVAL_MS == 5 * 60 * 1000
TOKEN_SAFETY_MARGIN_MS == 60000
DEFAULT_TOKEN_TTL_S == 7200

FEISHU_API_BASE == "https://open.feishu.cn/open-apis"
LARK_API_BASE == "https://open.larksuite.com/open-apis"

\* The custom domains of the model, each with what
\* domain.startsWith("http") and domain.replace(/\/+$/, "") give for it.
CustomDomains == {"https://p.example", "https://p.example/", "intranet"}

StartsWithHttp(d) == d \in {"https://p.example", "https://p.example/"}

StripTrailingSlashes(d) == IF d = "https://p.example/" THEN "https://p.example" ELSE d

resolveApiBase(domain) ==
  IF domain = "lark" THEN LARK_API_BASE
  ELSE IF ~Falsy(domain) /\ domain # "feishu" /\ StartsWithHttp(domain)
       THEN StripTrailingSlashes(domain) \o "/open-apis"
       ELSE FEISHU_API_BASE

\* `${creds.domain ?? "feishu"}|${creds.appId}`
TokenKey_IgnoresDomain(creds) == "feishu" \o "|" \o creds.appId

TokenKey(creds) ==
  (IF creds.domain = Undef THEN "feishu" ELSE creds.domain) \o "|" \o creds.appId

\* cleanupTokenCache(), run at time t: the cache and the sweep time after it
cleanupTokenCache_DropsAll(cache, last, t) ==
  IF t - last < TOKEN_CACHE_CLEANUP_INTERVAL_MS
  THEN [cache |-> cache, last |-> last]
  ELSE [cache |-> <<>>, last |-> t]

cleanupTokenCache(cache, last, t) ==
  IF t - last < TOKEN_CACHE_CLEANUP_INTERVAL_MS
  THEN [cache |-> cache, last |-> last]
  ELSE [cache |-> [k \in {j \in DOMAIN cache : ~(cache[j].expiresAt < t)} |-> cache[k]],
        last |-> t]

\* the cache test of getToken: cached && cached.expiresAt > Date.now() + 60000
TokenFresh_AtMargin(cache, key, t) ==
  key \in DOMAIN cache /\ cache[key].expiresAt >= t + TOKEN_SAFETY_MARGIN_MS

TokenFresh(cache, key, t) ==
  key \in DOMAIN cache /\ cache[key].expiresAt > t + TOKEN_SAFETY_MARGIN_MS

\* data.code !== 0 || !data.tenant_access_token
ExchangeRejected_CodeOnly(data) == data.code # 0

ExchangeRejected(data) == data.code # 0 \/ Falsy(data.token)

\* tokenCache.set(key, {token, expiresAt: Date.now() + (data.expire ?? 7200) * 1000})
StoreToken(cache, key, data, t) ==
  LET ttl == IF data.expire = NoExpire THEN DEFAULT_TOKEN_TTL_S ELSE data.expire
      entry == [token |-> data.token, expiresAt |-> t + ttl * 1000]
  IN [k \in DOMAIN cache \cup {key} |-> IF k = key THEN entry ELSE cache[k]]

\* The synchronous head of getToken(creds) at the current time: the sweep,
\* then the lookup.
GetTokenHead(creds) ==
  LET c == cleanupTokenCache(tokenCache, lastTokenCacheCleanup, now)
      key == TokenKey(creds)
  IN [cache |-> c.cache, last |-> c.last, key |-> key,
      hit |-> TokenFresh(c.cache, key, now),
      token |-> IF key \in DOMAIN c.cache THEN c.cache[key].token ELSE Undef]

(* Direct calls of getToken: the calls the engine's other callers make *)

TokenCreds ==
  { [appId |-> "A", appSecret |-> "s", domain |-> d] : d \in {Undef, "feishu", "lark"} }

\* What the token-exchange endpoint may answer; a transport failure of fetch
\* is the answer with code 1.
ExchangeAnswers ==
  { [code |-> 0, token |-> "t1", expire |-> NoExpire],
    [code |-> 0, token |-> "t2", expire |-> 30],
    [code |-> 0, token |-> "t2", expire |-> 60],
    [code |-> 0, token |-> "t2", expire |-> 120],
    [code |-> 1, token |-> "t1", expire |-> NoExpire],
    [code |-> 0, token |-> Undef, expire |-> NoExpire],
    [code |-> 0, token |-> "", expire |-> NoExpire] }

\* The exchange has not answered yet
NoAnswer == [code |-> 0 - 1, token |-> Undef, expire |-> NoExpire]

\* The calls kept in tokenCalls: those in flight and the one that ended last
InFlightTokenCalls(calls) == SelectSeq(calls, LAMBDA c : c.pc = "fetch")

\* getToken(creds), up to its first await
GetTokenCall(creds) ==
  /\ tokenCalls.n < MaxTokenCalls
  /\ LET h == GetTokenHead(creds)
         exp == IF h.key \in DOMAIN h.cache THEN h.cache[h.key].expiresAt ELSE NoExpire
         call == [key |-> h.key, at |-> now, exp |-> exp,
                  before |-> IF h.hit THEN <<>> ELSE tokenCache, ord |-> tokenCalls.n + 1,
                  alone |-> InFlightTokenCalls(tokenCalls.calls) = <<>>,
                  answer |-> NoAnswer,
                  pc |-> IF h.hit THEN "returned" ELSE "fetch",
                  via |-> IF h.hit THEN "cache" ELSE "exchange",
                  requests |-> IF h.hit THEN 0 ELSE 1,
                  token |-> IF h.hit THEN h.token ELSE Undef]
     IN /\ tokenCache' = h.cache
        /\ lastTokenCacheCleanup' = h.last
        /\ tokenCalls' = [n |-> tokenCalls.n + 1,
                          calls |-> IF h.hit
                                    THEN Append(InFlightTokenCalls(tokenCalls.calls), call)
                                    ELSE Append(tokenCalls.calls, call)]
  /\ UNCHANGED <<now, clientVars, sessVars, env, calc>>

\* getToken after `await fetch(...)` and `await res.json()`
GetTokenAnswer(i, data) ==
  /\ i \in 1..Len(tokenCalls.calls)
  /\ tokenCalls.calls[i].pc = "fetch"
  /\ LET call == tokenCalls.calls[i]
         others == InFlightTokenCalls([tokenCalls.calls EXCEPT ![i].pc = "answered"])
     IN IF ExchangeRejected(data)
        THEN /\ tokenCalls' = [tokenCalls EXCEPT !.calls = Append(others, [call EXCEPT !.pc = "thrown",
                                                                           !.answer = data])]
             /\ UNCHANGED tokenCache
        ELSE /\ tokenCache' = StoreToken(tokenCache, call.key, data, now)
             /\ tokenCalls' = [tokenCalls EXCEPT !.calls =
                                 Append(others, [call EXCEPT !.pc = "returned", !.token = data.token,
                                                        !.answer = data, !.before = <<>>])]
  /\ UNCHANGED <<now, lastTokenCacheCleanup, clientVars, sessVars, env, calc>>

TokenTickSteps == {TOKEN_SAFETY_MARGIN_MS, TOKEN_CACHE_CLEANUP_INTERVAL_MS}

\* Time passes between calls: a whole sweep interval, or one margin, up to
\* MaxTokenTicks margins past the start and past the sweep interval
TokenTick(d) ==
  /\ now + d <= ClockStart + TOKEN_CACHE_CLEANUP_INTERVAL_MS + MaxTokenTicks * TOKEN_SAFETY_MARGIN_MS
  /\ ((now - ClockStart) % TOKEN_CACHE_CLEANUP_INTERVAL_MS) + d
       <= Max(d, MaxTokenTicks * TOKEN_SAFETY_MARGIN_MS)
  /\ now' = now + d
  /\ UNCHANGED <<tokenVars, clientVars, sessVars, env, calc>>


----------------------------------------------------------------------------
(* Client cache: client.ts 1-162 *)

CLIENT_CACHE_MAX_SIZE == 50

EmptyAccountId == 0
DefaultAccountId == 1
NoAccountId == 0 - 1

\* JavaScript truthiness of an accountId string: only "" is falsy
TruthyId(id) == id # NoAccountId /\ id # EmptyAccountId

Keys(cache) == { cache[i].accountId : i \in 1..Len(cache) }

IndexOf(cache, id) == CHOOSE i \in 1..Len(cache) : cache[i].accountId = id

\* Map.prototype.delete
MapDelete(cache, id) == SelectSeq(cache, LAMBDA e : e.accountId # id)

\* Map.prototype.set: an existing key keeps its place in the iteration order
MapSet(cache, entry) ==
  IF entry.accountId \in Keys(cache)
  THEN [cache EXCEPT ![IndexOf(cache, entry.accountId)] = entry]
  ELSE Append(cache, entry)

\* The loop of evictOldestIfNeeded: the first entry, in iteration order, whose
\* lastAccess is below that of every entry before it and not above any after it.
OldestIndex(cache) ==
  CHOOSE i \in 1..Len(cache) :
    /\ \A j \in 1..(i - 1) : cache[j].lastAccess > cache[i].lastAccess
    /\ \A j \in (i + 1)..Len(cache) : cache[j].lastAccess >= cache[i].lastAccess

\* evictOldestIfNeeded(): `if (oldestKey)` keeps an oldest entry whose key is ""
evictOldestIfNeeded(cache) ==
  IF Len(cache) < CLIENT_CACHE_MAX_SIZE THEN cache
  ELSE LET oldestKey == cache[OldestIndex(cache)].accountId
       IN IF TruthyId(oldestKey) THEN MapDelete(cache, oldestKey) ELSE cache

Config(creds) == [appId |-> creds.appId, appSecret |-> creds.appSecret, domain |-> creds.domain]

\* const { accountId = "default" } = creds
AccountIdOf(creds) ==
  IF creds.accountId = NoAccountId THEN DefaultAccountId ELSE creds.accountId

CacheHit_IgnoreDomain(cache, id, creds) ==
  /\ id \in Keys(cache)
  /\ cache[IndexOf(cache, id)].config.appId = creds.appId
  /\ cache[IndexOf(cache, id)].config.appSecret = creds.appSecret

CacheHit(cache, id, creds) ==
  /\ id \in Keys(cache)
  /\ cache[IndexOf(cache, id)].config = Config(creds)

\* resolveDomain(domain) of client.ts
resolveDomain(domain) ==
  IF domain = "lark" THEN "Lark.Domain.Lark"
  ELSE IF domain = "feishu" \/ Falsy(domain) THEN "Lark.Domain.Feishu"
       ELSE StripTrailingSlashes(domain)

AccountInputs == {EmptyAccountId, 2, CLIENT_CACHE_MAX_SIZE + 1}

ClientCreds ==
  { [accountId |-> a, appId |-> c[1], appSecret |-> c[2], domain |-> c[3]] :
      a \in AccountInputs,
      c \in { <<"A", "s", Undef>>, <<"B", "s", Undef>>, <<"A", "t", Undef>>,
              <<"A", "s", "lark">>,
              <<Undef, "s", Undef>>, <<"A", "", Undef>> } }
    \cup { [accountId |-> NoAccountId, appId |-> "A", appSecret |-> s, domain |-> Undef] :
             s \in {"s", Undef} }

\* !appId || !appSecret
CredsMissing_AppIdOnly(creds) == Falsy(creds.appId)

CredsMissing(creds) == Falsy(creds.appId) \/ Falsy(creds.appSecret)

\* new Error(`Feishu credentials not configured for account "${accountId}"`)
NotConfigured(accountId) == <<"Feishu credentials not configured for account", accountId>>

ClientOpAllowed == clientCalls.n < MaxClientOps

\* createFeishuClient(creds)
createFeishuClient(creds) ==
  /\ ClientOpAllowed
  /\ LET accountId == AccountIdOf(creds) IN
     IF CredsMissing(creds)
     THEN /\ clientCalls' = [n |-> clientCalls.n + 1, op |-> "create", accountId |-> accountId,
                             threw |-> TRUE, result |-> 0, before |-> clientCache,
                             config |-> Config(creds), arg |-> creds.accountId,
                             error |-> NotConfigured(accountId)]
          /\ UNCHANGED <<clientCache, nextClient>>
     ELSE IF CacheHit(clientCache, accountId, creds)
     THEN LET i == IndexOf(clientCache, accountId) IN
          /\ clientCache' = [clientCache EXCEPT ![i].lastAccess = now]
          /\ clientCalls' = [n |-> clientCalls.n + 1, op |-> "create", accountId |-> accountId,
                             threw |-> FALSE, result |-> clientCache[i].client,
                             before |-> clientCache, config |-> Config(creds), arg |-> creds.accountId]
          /\ UNCHANGED nextClient
     ELSE /\ clientCache' = MapSet(evictOldestIfNeeded(clientCache),
                                   [accountId |-> accountId, client |-> nextClient,
                                    config |-> Config(creds), domain |-> resolveDomain(creds.domain),
                                    lastAccess |-> now])
          /\ nextClient' = nextClient + 1
          /\ clientCalls' = [n |-> clientCalls.n + 1, op |-> "create", accountId |-> accountId,
                             threw |-> FALSE, result |-> nextClient, before |-> clientCache,
                             config |-> Config(creds), arg |-> creds.accountId]
  /\ UNCHANGED <<now, tokenVars, sessVars, env, calc>>

\* getFeishuClient(accountId)
getFeishuClient(accountId) ==
  /\ ClientOpAllowed
  /\ IF accountId \in Keys(clientCache)
     THEN LET i == IndexOf(clientCache, accountId) IN
          /\ clientCache' = [clientCache EXCEPT ![i].lastAccess = now]
          /\ clientCalls' = [n |-> clientCalls.n + 1, op |-> "get", accountId |-> accountId,
                             threw |-> FALSE, result |-> clientCache[i].client,
                             before |-> clientCache]
     ELSE /\ clientCalls' = [n |-> clientCalls.n + 1, op |-> "get", accountId |-> accountId,
                             threw |-> FALSE, result |-> 0, before |-> clientCache]
          /\ UNCHANGED clientCache
  /\ UNCHANGED <<now, nextClient, tokenVars, sessVars, env, calc>>

\* clearClientCache(accountId?)
clearClientCache(accountId) ==
  /\ ClientOpAllowed
  /\ clientCache' = IF TruthyId(accountId) THEN MapDelete(clientCache, accountId) ELSE <<>>
  /\ clientCalls' = [n |-> clientCalls.n + 1, op |-> "clear", accountId |-> accountId,
                     threw |-> FALSE, result |-> 0, before |-> clientCache]
  /\ UNCHANGED <<now, nextClient, tokenVars, sessVars, env, calc>>

\* getClientCacheSize()
getClientCacheSize ==
  /\ ClientOpAllowed
  /\ clientCalls' = [n |-> clientCalls.n + 1, op |-> "size", accountId |-> NoAccountId,
                     threw |-> FALSE, result |-> Len(clientCache), before |-> clientCache]
  /\ UNCHANGED <<now, clientCache, nextClient, tokenVars, sessVars, env, calc>>

ClientTick ==
  /\ now < ClockStart + MaxClientTicks
  /\ now' = now + 1
  /\ UNCHANGED <<tokenVars, clientVars, sessVars, env, calc>>

\* A cache filled by n earlier createFeishuClient calls, one millisecond apart,
\* the last of them at ClockStart - 1: for the accountIds first, first + 1, ...
\* except that the oldest entry is that of accountId `oldest`.
FilledCache(n, oldest, first) ==
  [i \in 1..n |->
     [accountId |-> IF i = 1 THEN oldest ELSE first + i - 1,
      client |-> i,
      config |-> [appId |-> "A", appSecret |-> "s", domain |-> Undef],
      domain |-> resolveDomain(Undef),
      lastAccess |-> ClockStart - 1 - n + i]]


----------------------------------------------------------------------------
(* Streaming session: dynamic-agent.ts 362-593 *)

DEFAULT_UPDATE_THROTTLE_MS == 100
MAX_ERRORS == 5
SUMMARY_MAX == 50

Whitespace == {" ", "\t", "\n", "\r"}

RECURSIVE ReplaceNewlines(_)
\* text.replace(/\n/g, " ")
ReplaceNewlines(text) ==
  IF text = <<>> THEN <<>>
  ELSE <<IF Head(text) = "\n" THEN " " ELSE Head(text)>> \o ReplaceNewlines(Tail(text))

RECURSIVE TrimStart(_)
TrimStart(text) ==
  IF text # <<>> /\ Head(text) \in Whitespace THEN TrimStart(Tail(text)) ELSE text

RECURSIVE TrimEnd(_)
TrimEnd(text) ==
  IF text # <<>> /\ text[Len(text)] \in Whitespace
  THEN TrimEnd(SubSeq(text, 1, Len(text) - 1)) ELSE text

\* String.prototype.trim
Trim(text) == TrimEnd(TrimStart(text))

\* truncateSummary(text, max = 50)
truncateSummary_NoRoomForEllipsis(text, max) ==
  IF text = <<>> THEN <<>>
  ELSE LET clean == Trim(ReplaceNewlines(text))
       IN IF Len(clean) <= max THEN clean
          ELSE SubSeq(clean, 1, max) \o <<".", ".", ".">>

truncateSummary(text, max) ==
  IF text = <<>> THEN <<>>
  ELSE LET clean == Trim(ReplaceNewlines(text))
       IN IF Len(clean) <= max THEN clean
          ELSE SubSeq(clean, 1, max - 3) \o <<".", ".", ".">>

\* this.state === null
NoState == [cardId |-> 0, messageId |-> 0, sequence |-> 0, currentText |-> <<>>]

IdleClose == [pc |-> "idle", finalText |-> NULL, text |-> NULL, shown |-> NULL, src |-> 0,
              urlCard |-> 0, req |-> [content |-> NULL, sequence |-> 0, uuidCard |-> 0]]

NoReq == [content |-> NULL, sequence |-> 0, uuidCard |-> 0]

\* new FeishuStreamingSession(client, creds, log, error, updateThrottleMs)
NewSession(creds, updateThrottleMs) ==
  [creds |-> creds,
   state |-> NoState,
   closed |-> FALSE,
   lastUpdateTime |-> 0,
   pendingText |-> NULL,
   updateThrottleMs |-> updateThrottleMs,
   errorCount |-> 0,
   starts |-> <<>>,        \* the start() calls that passed the guard
   ucalls |-> <<>>,        \* the update() calls that passed the guard; the
                           \* accepted ones are the units of this.queue, in order
   closing |-> IdleClose,  \* the close() call that passed the guard
   wire |-> <<>>,          \* the card mutations answered so far, in order
   errorCb |-> 0,          \* invocations of the error callback
   raised |-> {},          \* the operations that threw to their caller
   pendingFrom |-> 0,      \* the update() call pendingText comes from
   resumed |-> {},         \* the update() calls that returned from `await this.queue`
   failures |-> 0]         \* mutation attempts that failed, as the network saw them

SessionCreds == [appId |-> "A", appSecret |-> "s", domain |-> Undef]

\* What the endpoints may answer to a session's calls
SessionTokenAnswers ==
  { [code |-> 0, token |-> "t1", expire |-> NoExpire],
    [code |-> 0, token |-> "t1", expire |-> 60],
    [code |-> 1, token |-> Undef, expire |-> NoExpire] }

\* ok: res.ok; http: a non-OK status; throw: fetch rejected
Outcomes == {"ok", "http", "throw"}

UnitStates == {"wait", "tokHit", "tokNet", "put", "ok", "failed", "skipped"}

Finished(u) == u.st \in {"thr", "ok", "failed", "skipped"}

IsUnit(u) == u.st # "thr"

\* this.queue has settled
QueueDrained(r) == \A j \in 1..Len(r.ucalls) : Finished(r.ucalls[j])

\* the request of unit i is in flight
UnitInFlight(u) == u.st = "put"

CloseInFlight(c) == c.pc \in {"flushPut", "setPatch"}

\* network mutations of session r in flight
InFlight(r) ==
  Cardinality({i \in 1..Len(r.ucalls) : UnitInFlight(r.ucalls[i])})
    + (IF CloseInFlight(r.closing) THEN 1 ELSE 0)

\* handleError(context, err)
handleError_NoTrip(r) ==
  [r EXCEPT !.errorCount = @ + 1, !.errorCb = @ + 1]

handleError_TripsAbove(r) ==
  LET n == r.errorCount + 1
  IN [r EXCEPT !.errorCount = n,
               !.errorCb = @ + (IF n > MAX_ERRORS THEN 2 ELSE 1),
               !.closed = IF n > MAX_ERRORS THEN TRUE ELSE @]

handleError(r) ==
  LET n == r.errorCount + 1
  IN [r EXCEPT !.errorCount = n,
               !.errorCb = @ + (IF n >= MAX_ERRORS THEN 2 ELSE 1),
               !.closed = IF n >= MAX_ERRORS THEN TRUE ELSE @]

\* The try/catch around each mutation: the failure is handled, nothing is raised
ContainFailure_Rethrow(r, op) == [handleError(r) EXCEPT !.raised = @ \cup {op}]

ContainFailure(r, op) == handleError(r)

\* The body of a mutation as it is built after `await getToken(...)`
Request(r, content) ==
  [content |-> content, sequence |-> r.state.sequence, uuidCard |-> r.state.cardId]

WireEntry(kind, by, src, urlCard, req, outcome) ==
  [kind |-> kind, by |-> by, src |-> src, urlCard |-> urlCard, content |-> req.content,
   sequence |-> req.sequence,
   uuid |-> <<IF kind = "content" THEN "s" ELSE "c", req.uuidCard, req.sequence>>,
   ok |-> (outcome = "ok")]

SetSess(s, r) == sess' = [sess EXCEPT ![s] = r]

\* getToken's head run by a session: the sweep and the lookup
SessTokenHead(s) == GetTokenHead(sess[s].creds)

TokenPc(h, hitPc, netPc) == IF h.hit THEN hitPc ELSE netPc

UseTokenHead(h) ==
  /\ tokenCache' = h.cache
  /\ lastTokenCacheCleanup' = h.last


(* start(receiveId, receiveIdType): 402-457 *)

\* A step of start() throws: the error reaches the caller, this.state is not assigned
StartFailed_PartialState(r, i) ==
  [r EXCEPT !.starts[i].pc = "thrown", !.raised = @ \cup {"start"},
            !.state = [cardId |-> r.starts[i].cardId, messageId |-> 0,
                       sequence |-> 1, currentText |-> <<>>]]

StartFailed_ResetsState(r, i) ==
  [r EXCEPT !.starts[i].pc = "thrown", !.raised = @ \cup {"start"}, !.state = NoState]

StartFailed(r, i) == [r EXCEPT !.starts[i].pc = "thrown", !.raised = @ \cup {"start"}]

\* start() up to its first await, the getToken of the card creation
StartCall(s) ==
  LET r == sess[s] IN
  IF r.state # NoState
  THEN UNCHANGED vars
  ELSE /\ Len(r.starts) < env.maxStarts
       /\ LET h == SessTokenHead(s) IN
          /\ UseTokenHead(h)
          /\ SetSess(s, [r EXCEPT !.starts = Append(@, [pc |-> TokenPc(h, "tokHit", "tokNet"),
                                                        cardId |-> 0])])
       /\ UNCHANGED <<now, tokenCalls, clientVars, remote, env, calc>>

\* The cached token is there: POST /cardkit/v1/cards is sent
StartTokenReady(s, i) ==
  LET r == sess[s] IN
  /\ i \in 1..Len(r.starts)
  /\ r.starts[i].pc = "tokHit"
  /\ SetSess(s, [r EXCEPT !.starts[i].pc = "create"])
  /\ UNCHANGED <<now, tokenVars, clientVars, remote, env, calc>>

\* The token exchange answers: start() throws, or the card creation is sent
StartTokenAnswer(s, i, data) ==
  LET r == sess[s] IN
  /\ data \in env.tokenAnswers
  /\ i \in 1..Len(r.starts)
  /\ r.starts[i].pc = "tokNet"
  /\ IF ExchangeRejected(data)
     THEN /\ SetSess(s, StartFailed(r, i))
          /\ UNCHANGED tokenCache
     ELSE /\ tokenCache' = StoreToken(tokenCache, TokenKey(r.creds), data, now)
          /\ SetSess(s, [r EXCEPT !.starts[i].pc = "create"])
  /\ UNCHANGED <<now, lastTokenCacheCleanup, tokenCalls, clientVars, remote, env, calc>>

\* The card creation answers: start() throws, or im.message.create is sent
StartCardAnswer(s, i, ok) ==
  LET r == sess[s] IN
  /\ i \in 1..Len(r.starts)
  /\ r.starts[i].pc = "create"
  /\ IF ok
     THEN /\ remote' = [remote EXCEPT !.cards = @ + 1]
          /\ SetSess(s, [r EXCEPT !.starts[i].pc = "send", !.starts[i].cardId = remote.cards + 1])
     ELSE /\ SetSess(s, StartFailed(r, i))
          /\ UNCHANGED remote
  /\ UNCHANGED <<now, tokenVars, clientVars, env, calc>>

\* The message send answers: start() throws, or this.state is set
StartSendAnswer(s, i, ok) ==
  LET r == sess[s] IN
  /\ i \in 1..Len(r.starts)
  /\ r.starts[i].pc = "send"
  /\ IF ok
     THEN /\ remote' = [remote EXCEPT !.messages = @ + 1]
          /\ SetSess(s, [r EXCEPT !.starts[i].pc = "returned",
                                  !.state = [cardId |-> r.starts[i].cardId,
                                             messageId |-> remote.messages + 1,
                                             sequence |-> 1,
                                             currentText |-> <<>>]])
     ELSE /\ SetSess(s, StartFailed(r, i))
          /\ UNCHANGED remote
  /\ UNCHANGED <<now, tokenVars, clientVars, env, calc>>

(* update(text): 472-517 *)

\* every unit enqueued before unit i has settled
UnitReady_NoChain(r, i) == TRUE

UnitReady_SharedQueue(r, i) ==
  /\ \A j \in 1..(i - 1) : Finished(r.ucalls[j])
  /\ \A t \in DOMAIN sess : \A j \in 1..Len(sess[t].ucalls) : ~UnitInFlight(sess[t].ucalls[j])

UnitReady(r, i) == \A j \in 1..(i - 1) : Finished(r.ucalls[j])

\* now - this.lastUpdateTime < this.updateThrottleMs
Throttled_Never(r, t) == FALSE

Throttled_AtWindowEnd(r, t) == t - r.lastUpdateTime <= r.updateThrottleMs

Throttled(r, t) == t - r.lastUpdateTime < r.updateThrottleMs

\* The guard of update(): !this.state || this.closed
UpdateIsNoOp_Unstarted(r) == r.state = NoState

UpdateIsNoOp(r) == r.state = NoState \/ r.closed

\* update(text) up to `await this.queue`
UpdateCall(s, text) ==
  LET r == sess[s] IN
  IF UpdateIsNoOp(r)
  THEN UNCHANGED vars
  ELSE /\ Len(r.ucalls) < env.maxUpdates
       /\ text \in env.texts
       /\ IF Throttled(r, now)
          THEN SetSess(s, [r EXCEPT !.pendingText = text,
                                    !.pendingFrom = Len(r.ucalls) + 1,
                                    !.ucalls = Append(@, [t |-> now, text |-> text, st |-> "thr",
                                                          urlCard |-> 0, req |-> NoReq])])
          ELSE SetSess(s, [r EXCEPT !.pendingText = NULL,
                                    !.pendingFrom = 0,
                                    !.lastUpdateTime = now,
                                    !.ucalls = Append(@, [t |-> now, text |-> text, st |-> "wait",
                                                          urlCard |-> 0, req |-> NoReq])])
       /\ UNCHANGED <<now, tokenVars, clientVars, remote, env, calc>>

\* The test a unit starts with: !this.state || this.closed
UnitSkips_Unstarted(r) == r.state = NoState

UnitSkips(r) == r.state = NoState \/ r.closed

\* The queued unit of update call i runs, up to its getToken
UnitStart(s, i) ==
  LET r == sess[s] IN
  /\ i \in 1..Len(r.ucalls)
  /\ r.ucalls[i].st = "wait"
  /\ UnitReady(r, i)
  /\ IF UnitSkips(r)
     THEN /\ SetSess(s, [r EXCEPT !.ucalls[i].st = "skipped"])
          /\ UNCHANGED <<tokenCache, lastTokenCacheCleanup>>
     ELSE LET h == SessTokenHead(s) IN
          /\ UseTokenHead(h)
          /\ SetSess(s, [r EXCEPT !.state.currentText = r.ucalls[i].text,
                                  !.state.sequence = @ + 1,
                                  !.ucalls[i].urlCard = r.state.cardId,
                                  !.ucalls[i].st = TokenPc(h, "tokHit", "tokNet")])
  /\ UNCHANGED <<now, tokenCalls, clientVars, remote, env, calc>>

\* The cached token is there: the PUT of the content is sent
UnitTokenReady(s, i) ==
  LET r == sess[s] IN
  /\ i \in 1..Len(r.ucalls)
  /\ r.ucalls[i].st = "tokHit"
  /\ SetSess(s, [r EXCEPT !.ucalls[i].st = "put",
                          !.ucalls[i].req = Request(r, r.ucalls[i].text)])
  /\ UNCHANGED <<now, tokenVars, clientVars, remote, env, calc>>

\* The token exchange answers: the failure is contained, or the PUT is sent
UnitTokenAnswer(s, i, data) ==
  LET r == sess[s] IN
  /\ data \in env.tokenAnswers
  /\ i \in 1..Len(r.ucalls)
  /\ r.ucalls[i].st = "tokNet"
  /\ IF ExchangeRejected(data)
     THEN /\ SetSess(s, [ContainFailure([r EXCEPT !.failures = @ + 1], "update")
                           EXCEPT !.ucalls[i].st = "failed"])
          /\ UNCHANGED tokenCache
     ELSE /\ tokenCache' = StoreToken(tokenCache, TokenKey(r.creds), data, now)
          /\ SetSess(s, [r EXCEPT !.ucalls[i].st = "put",
                                  !.ucalls[i].req = Request(r, r.ucalls[i].text)])
  /\ UNCHANGED <<now, lastTokenCacheCleanup, tokenCalls, clientVars, remote, env, calc>>

\* The PUT answers
UnitPutAnswer(s, i, outcome) ==
  LET r == sess[s]
      u == r.ucalls[i]
      w == [r EXCEPT !.wire = Append(@, WireEntry("content", "update", i, u.urlCard, u.req, outcome))]
  IN
  /\ i \in 1..Len(r.ucalls)
  /\ u.st = "put"
  /\ IF outcome = "ok"
     THEN SetSess(s, [w EXCEPT !.ucalls[i].st = "ok"])
     ELSE SetSess(s, [ContainFailure([w EXCEPT !.failures = @ + 1], "update")
                        EXCEPT !.ucalls[i].st = "failed"])
  /\ UNCHANGED <<now, tokenVars, clientVars, remote, env, calc>>

\* `await this.queue` in update call i: this.queue is the promise of its own unit
UpdateResumes_NoAwait(r, i) == TRUE

UpdateResumes(r, i) == Finished(r.ucalls[i])

\* update() resumes after `await this.queue` and returns
UpdateReturn(s, i) ==
  LET r == sess[s] IN
  /\ i \in 1..Len(r.ucalls)
  /\ IsUnit(r.ucalls[i])
  /\ i \notin r.resumed
  /\ UpdateResumes(r, i)
  /\ SetSess(s, [r EXCEPT !.resumed = @ \cup {i}])
  /\ UNCHANGED <<now, tokenVars, clientVars, remote, env, calc>>


(* close(finalText?): 519-584 *)

FinalTexts == Texts \cup {NULL}

\* The guard of close(): !this.state || this.closed
CloseIsNoOp_Unstarted(r) == r.state = NoState

CloseIsNoOp_OwnCloseOnly(r) == r.state = NoState \/ r.closing.pc # "idle"

CloseIsNoOp(r) == r.state = NoState \/ r.closed

\* close() up to `await this.queue`
CloseCall(s, finalText) ==
  LET r == sess[s] IN
  IF CloseIsNoOp(r)
  THEN UNCHANGED vars
  ELSE /\ finalText \in env.finals
       /\ SetSess(s, [r EXCEPT !.closed = TRUE,
                               !.closing = [IdleClose EXCEPT !.pc = "wait", !.finalText = finalText]])
       /\ UNCHANGED <<now, tokenVars, clientVars, remote, env, calc>>

\* finalText ?? this.pendingText ?? this.state.currentText
FinalText(r, finalText) == Coalesce(Coalesce(finalText, r.pendingText), r.state.currentText)

\* text && text !== this.state.currentText
NeedsFlush(r, text) == text # <<>> /\ text # r.state.currentText

\* "Close streaming mode": the sequence is incremented and getToken is called
BeginSettings(s, r) ==
  LET h == SessTokenHead(s) IN
  /\ UseTokenHead(h)
  /\ SetSess(s, [r EXCEPT !.state.sequence = @ + 1,
                          !.closing.urlCard = r.state.cardId,
                          !.closing.pc = TokenPc(h, "setTokHit", "setTokNet")])

\* close() after `await this.queue`, up to its next getToken
CloseResume(s) ==
  LET r == sess[s]
      text == FinalText(r, r.closing.finalText)
      c == [r EXCEPT !.closing.text = text,
                     !.closing.shown = r.state.currentText,
                     !.closing.src = IF r.closing.finalText = NULL THEN r.pendingFrom ELSE 0]
  IN
  /\ r.closing.pc = "wait"
  /\ QueueDrained(r)
  /\ IF NeedsFlush(r, text)
     THEN LET h == SessTokenHead(s) IN
          /\ UseTokenHead(h)
          /\ SetSess(s, [c EXCEPT !.state.sequence = @ + 1,
                                  !.closing.urlCard = r.state.cardId,
                                  !.closing.pc = TokenPc(h, "flushTokHit", "flushTokNet")])
     ELSE BeginSettings(s, c)
  /\ UNCHANGED <<now, tokenCalls, clientVars, remote, env, calc>>

\* The cached token is there: the PUT of the final text is sent
CloseFlushTokenReady(s) ==
  LET r == sess[s] IN
  /\ r.closing.pc = "flushTokHit"
  /\ SetSess(s, [r EXCEPT !.closing.pc = "flushPut", !.closing.req = Request(r, r.closing.text)])
  /\ UNCHANGED <<now, tokenVars, clientVars, remote, env, calc>>

\* The token exchange answers: the failure is contained and close goes on to
\* the settings, or the PUT is sent
CloseFlushTokenAnswer(s, data) ==
  LET r == sess[s] IN
  /\ data \in env.tokenAnswers
  /\ r.closing.pc = "flushTokNet"
  /\ IF ExchangeRejected(data)
     THEN BeginSettings(s, ContainFailure([r EXCEPT !.failures = @ + 1], "close"))
     ELSE /\ tokenCache' = StoreToken(tokenCache, TokenKey(r.creds), data, now)
          /\ SetSess(s, [r EXCEPT !.closing.pc = "flushPut",
                                  !.closing.req = Request(r, r.closing.text)])
          /\ UNCHANGED lastTokenCacheCleanup
  /\ UNCHANGED <<now, tokenCalls, clientVars, remote, env, calc>>

\* The PUT of the final text answers; close goes on to the settings
CloseFlushPutAnswer(s, outcome) ==
  LET r == sess[s]
      c == r.closing
      w == [r EXCEPT !.wire = Append(@, WireEntry("content", "close", c.src, c.urlCard, c.req, outcome))]
  IN
  /\ c.pc = "flushPut"
  /\ IF outcome = "ok"
     THEN BeginSettings(s, [w EXCEPT !.state.currentText = c.text])
     ELSE BeginSettings(s, ContainFailure([w EXCEPT !.failures = @ + 1], "close"))
  /\ UNCHANGED <<now, tokenCalls, clientVars, remote, env, calc>>

\* The cached token is there: the PATCH of the settings is sent
CloseSettingsTokenReady(s) ==
  LET r == sess[s] IN
  /\ r.closing.pc = "setTokHit"
  /\ SetSess(s, [r EXCEPT !.closing.pc = "setPatch",
                          !.closing.req = Request(r, truncateSummary(r.closing.text, SUMMARY_MAX))])
  /\ UNCHANGED <<now, tokenVars, clientVars, remote, env, calc>>

\* The token exchange answers: the failure is contained and close returns, or
\* the PATCH is sent
CloseSettingsTokenAnswer(s, data) ==
  LET r == sess[s] IN
  /\ data \in env.tokenAnswers
  /\ r.closing.pc = "setTokNet"
  /\ IF ExchangeRejected(data)
     THEN /\ SetSess(s, [ContainFailure([r EXCEPT !.failures = @ + 1], "close")
                           EXCEPT !.closing.pc = "returned"])
          /\ UNCHANGED tokenCache
     ELSE /\ tokenCache' = StoreToken(tokenCache, TokenKey(r.creds), data, now)
          /\ SetSess(s, [r EXCEPT !.closing.pc = "setPatch",
                                  !.closing.req = Request(r, truncateSummary(r.closing.text, SUMMARY_MAX))])
  /\ UNCHANGED <<now, lastTokenCacheCleanup, tokenCalls, clientVars, remote, env, calc>>

\* The PATCH answers; close returns
CloseSettingsAnswer(s, outcome) ==
  LET r == sess[s]
      c == r.closing
      w == [r EXCEPT !.wire = Append(@, WireEntry("settings", "close", 0, c.urlCard, c.req, outcome))]
  IN
  /\ c.pc = "setPatch"
  /\ IF outcome = "ok"
     THEN SetSess(s, [w EXCEPT !.closing.pc = "returned"])
     ELSE SetSess(s, [ContainFailure([w EXCEPT !.failures = @ + 1], "close")
                        EXCEPT !.closing.pc = "returned"])
  /\ UNCHANGED <<now, tokenVars, clientVars, remote, env, calc>>

SessionTickSteps == {DEFAULT_UPDATE_THROTTLE_MS \div 2, DEFAULT_UPDATE_THROTTLE_MS}

SessionTick(d) ==
  /\ now + d <= ClockStart + env.maxElapsed
  /\ now' = now + d
  /\ UNCHANGED <<tokenVars, clientVars, sessVars, env, calc>>

----------------------------------------------------------------------------
(* The pure functions, applied on their own *)

NoCalc == [op |-> "none"]

\* The domain values of the configuration: absent, empty, the two named
\* deployments and the custom ones
DomainInputs == {Undef, "", "feishu", "lark"} \cup CustomDomains

MaxTextLen == 52

Pads == {<<>>, <<" ">>, <<"\n">>, <<"\r", "\n">>}

\* A text of n characters that differ from their neighbours, the k-th of them
\* a newline when k is in 1..n
Body(n, k) ==
  [i \in 1..n |-> IF i = k THEN "\n"
                  ELSE IF i % 3 = 0 THEN "a" ELSE IF i % 3 = 1 THEN "b" ELSE "c"]

\* The final texts: short ones and ones about SUMMARY_MAX long, with blanks
\* and newlines around and inside them
SummaryTexts ==
  { lead \o Body(n, k) \o trail :
      lead \in Pads, trail \in Pads,
      n \in (0..2) \cup ((SUMMARY_MAX - 4)..MaxTextLen),
      k \in {0, 1, 2, SUMMARY_MAX - 3, SUMMARY_MAX - 2, SUMMARY_MAX} }

\* The deployment a configuration's domain selects: for the client handle
\* (createFeishuClient) and for the session's direct calls
ResolveDomains ==
  /\ calc.op = "domain" /\ ~calc.done
  /\ calc' = [calc EXCEPT !.done = TRUE,
                          !.client = resolveDomain(calc.domain),
                          !.apiBase = resolveApiBase(calc.domain)]
  /\ UNCHANGED <<now, tokenVars, clientVars, sessVars, env>>

\* summary: { content: truncateSummary(text) } of close()'s settings update
SummariseFinalText ==
  /\ calc.op = "summary" /\ ~calc.done
  /\ calc' = [calc EXCEPT !.done = TRUE,
                          !.summary = truncateSummary(calc.text, SUMMARY_MAX)]
  /\ UNCHANGED <<now, tokenVars, clientVars, sessVars, env>>

----------------------------------------------------------------------------
(* Specifications *)

InitCaches ==
  /\ now = ClockStart
  /\ tokenCache = <<>>
  /\ lastTokenCacheCleanup = ClockStart
  /\ tokenCalls = [n |-> 0, calls |-> <<>>]
  /\ clientCache = <<>>
  /\ clientCalls = [n |-> 0, op |-> "none", accountId |-> NoAccountId, threw |-> FALSE,
                    result |-> 0, before |-> <<>>]
  /\ nextClient = 1
  /\ remote = [cards |-> 0, messages |-> 0]
  /\ calc = NoCalc

SessionIds == {"s1"}
StartIndices == 1..MaxStarts
UnitIndices == 1..Max(MaxUpdates, BreakerUpdates)

SessionNext ==
  \/ \E s \in SessionIds : StartCall(s)
  \/ \E s \in SessionIds, i \in StartIndices : StartTokenReady(s, i)
  \/ \E s \in SessionIds, i \in StartIndices, data \in SessionTokenAnswers : StartTokenAnswer(s, i, data)
  \/ \E s \in SessionIds, i \in StartIndices, ok \in BOOLEAN : StartCardAnswer(s, i, ok)
  \/ \E s \in SessionIds, i \in StartIndices, ok \in BOOLEAN : StartSendAnswer(s, i, ok)
  \/ \E s \in SessionIds, text \in Texts : UpdateCall(s, text)
  \/ \E s \in SessionIds, i \in UnitIndices : UnitStart(s, i)
  \/ \E s \in SessionIds, i \in UnitIndices : UnitTokenReady(s, i)
  \/ \E s \in SessionIds, i \in UnitIndices, data \in SessionTokenAnswers : UnitTokenAnswer(s, i, data)
  \/ \E s \in SessionIds, i \in UnitIndices, outcome \in Outcomes : UnitPutAnswer(s, i, outcome)
  \/ \E s \in SessionIds, finalText \in FinalTexts : CloseCall(s, finalText)
  \/ \E s \in SessionIds : CloseResume(s)
  \/ \E s \in SessionIds : CloseFlushTokenReady(s)
  \/ \E s \in SessionIds, data \in SessionTokenAnswers : CloseFlushTokenAnswer(s, data)
  \/ \E s \in SessionIds, outcome \in Outcomes : CloseFlushPutAnswer(s, outcome)
  \/ \E s \in SessionIds : CloseSettingsTokenReady(s)
  \/ \E s \in SessionIds, data \in SessionTokenAnswers : CloseSettingsTokenAnswer(s, data)
  \/ \E s \in SessionIds, outcome \in Outcomes : CloseSettingsAnswer(s, outcome)
  \/ \E d \in SessionTickSteps : SessionTick(d)

\* The environments a session is explored under: how many calls its producers
\* make, with which texts, over how much time, and what the token endpoint
\* may answer.
TokenAnswersLongLived == {a \in SessionTokenAnswers : a.expire = NoExpire}

\* Bursty producers: updates inside and across throttle windows, any texts
BurstyEnv ==
  [name |-> "bursty", throttle |-> DEFAULT_UPDATE_THROTTLE_MS,
   maxStarts |-> 1, maxUpdates |-> MaxUpdates, maxElapsed |-> MaxElapsed,
   texts |-> Texts, finals |-> FinalTexts, tokenAnswers |-> TokenAnswersLongLived]

\* Overlapping start() calls
RestartEnv ==
  [name |-> "restart", throttle |-> DEFAULT_UPDATE_THROTTLE_MS,
   maxStarts |-> MaxStarts, maxUpdates |-> 1, maxElapsed |-> 0,
   texts |-> {<<"a">>}, finals |-> {NULL}, tokenAnswers |-> TokenAnswersLongLived]

\* A long stream on a session built with updateThrottleMs = 0, tokens that
\* expire at once included
StreamEnv ==
  [name |-> "stream", throttle |-> 0,
   maxStarts |-> 1, maxUpdates |-> BreakerUpdates, maxElapsed |-> 0,
   texts |-> {<<"a">>}, finals |-> {NULL, <<"b">>},
   tokenAnswers |-> SessionTokenAnswers]

SessionEnvs == {BurstyEnv, RestartEnv, StreamEnv}

\* One session, any producers
Init ==
  /\ InitCaches
  /\ env \in SessionEnvs
  /\ sess = [s \in SessionIds |-> NewSession(SessionCreds, env.throttle)]

Next == SessionNext

Spec == Init /\ [][Next]_vars

\* The token cache, called directly
NoSessionEnv ==
  [name |-> "none", throttle |-> 0, maxStarts |-> 0, maxUpdates |-> 0, maxElapsed |-> 0,
   texts |-> {}, finals |-> {}, tokenAnswers |-> {}]

\* The cache as the calls of another application left it: a token stored at
\* ClockStart with the default ttl
OtherAppCache ==
  [k \in {TokenKey([appId |-> "B", appSecret |-> "s", domain |-> Undef])} |->
     [token |-> "t0", expiresAt |-> ClockStart + DEFAULT_TOKEN_TTL_S * 1000]]

InitToken ==
  /\ now = ClockStart
  /\ tokenCache \in {<<>>, OtherAppCache}
  /\ lastTokenCacheCleanup = ClockStart
  /\ tokenCalls = [n |-> 0, calls |-> <<>>]
  /\ clientCache = <<>>
  /\ clientCalls = [n |-> 0, op |-> "none", accountId |-> NoAccountId, threw |-> FALSE,
                    result |-> 0, before |-> <<>>]
  /\ nextClient = 1
  /\ remote = [cards |-> 0, messages |-> 0]
  /\ calc = NoCalc
  /\ env = NoSessionEnv
  /\ sess = <<>>

NextToken ==
  \/ \E creds \in TokenCreds : GetTokenCall(creds)
  \/ \E i \in 1..MaxTokenCalls, data \in ExchangeAnswers : GetTokenAnswer(i, data)
  \/ \E d \in TokenTickSteps : TokenTick(d)

SpecToken == InitToken /\ [][NextToken]_vars

\* The client cache, from an empty cache and from caches one insertion short
\* of full
InitClient ==
  /\ now = ClockStart
  /\ tokenCache = <<>>
  /\ lastTokenCacheCleanup = ClockStart
  /\ tokenCalls = [n |-> 0, calls |-> <<>>]
  /\ remote = [cards |-> 0, messages |-> 0]
  /\ env = NoSessionEnv
  /\ sess = <<>>
  /\ calc = NoCalc
  /\ \E filled \in { <<>> } \cup
                   { FilledCache(n, oldest, 2) :
                       n \in {CLIENT_CACHE_MAX_SIZE - 1, CLIENT_CACHE_MAX_SIZE},
                       oldest \in {2, EmptyAccountId} } :
       /\ clientCache = filled
       /\ nextClient = Len(filled) + 1
  /\ clientCalls = [n |-> 0, op |-> "none", accountId |-> NoAccountId, threw |-> FALSE,
                    result |-> 0, before |-> <<>>]

NextClient ==
  \/ \E creds \in ClientCreds : createFeishuClient(creds)
  \/ \E a \in AccountInputs : getFeishuClient(a)
  \/ \E a \in AccountInputs \cup {NoAccountId} : clearClientCache(a)
  \/ getClientCacheSize
  \/ ClientTick

SpecClient == InitClient /\ [][NextClient]_vars

\* Two sessions of one application, built with the default throttle and
\* interleaved within one throttle window. The tokens live long, so that
\* after start() every call of a session finds the token cached.
PairIds == {"s1", "s2"}

PairEnv ==
  [name |-> "pair", throttle |-> DEFAULT_UPDATE_THROTTLE_MS,
   maxStarts |-> 1, maxUpdates |-> PairUpdates, maxElapsed |-> 0,
   texts |-> {<<"a">>}, finals |-> {NULL, <<"b">>}, tokenAnswers |-> TokenAnswersLongLived]

\* A session that started a throttle window ago and has since had
\* MAX_ERRORS - 1 updates fail; the record of those calls is not kept
WornSession ==
  [NewSession(SessionCreds, PairEnv.throttle) EXCEPT
     !.state = [cardId |-> 1, messageId |-> 1, sequence |-> MAX_ERRORS, currentText |-> <<"a">>],
     !.lastUpdateTime = ClockStart - PairEnv.throttle,
     !.errorCount = MAX_ERRORS - 1,
     !.errorCb = MAX_ERRORS - 1,
     !.failures = MAX_ERRORS - 1,
     !.starts = <<[pc |-> "returned", cardId |-> 1]>>]

InitPair ==
  /\ now = ClockStart
  /\ lastTokenCacheCleanup = ClockStart
  /\ tokenCalls = [n |-> 0, calls |-> <<>>]
  /\ clientCache = <<>>
  /\ clientCalls = [n |-> 0, op |-> "none", accountId |-> NoAccountId, threw |-> FALSE,
                    result |-> 0, before |-> <<>>]
  /\ nextClient = 1
  /\ calc = NoCalc
  /\ env = PairEnv
  /\ \/ /\ sess = [s \in PairIds |-> NewSession(SessionCreds, env.throttle)]
        /\ tokenCache = <<>>
        /\ remote = [cards |-> 0, messages |-> 0]
     \/ /\ sess = [s \in PairIds |-> IF s = "s1" THEN WornSession
                                                ELSE NewSession(SessionCreds, env.throttle)]
        /\ tokenCache = StoreToken(<<>>, TokenKey(SessionCreds),
                                   [code |-> 0, token |-> "t1", expire |-> NoExpire], ClockStart)
        /\ remote = [cards |-> 1, messages |-> 1]

\* The steps of session s that its callers take
CallerStep(s) ==
  \/ StartCall(s)
  \/ \E text \in Texts : UpdateCall(s, text)
  \/ \E finalText \in FinalTexts : CloseCall(s, finalText)

\* The steps of session s that the event loop takes when a promise settles:
\* an answer of the network, or the turn of a queued unit
SettleStep(s) ==
  \/ \E i \in StartIndices : StartTokenReady(s, i)
  \/ \E i \in StartIndices, data \in SessionTokenAnswers : StartTokenAnswer(s, i, data)
  \/ \E i \in StartIndices, ok \in BOOLEAN : StartCardAnswer(s, i, ok)
  \/ \E i \in StartIndices, ok \in BOOLEAN : StartSendAnswer(s, i, ok)
  \/ \E i \in UnitIndices : UnitStart(s, i)
  \/ \E i \in UnitIndices : UnitTokenReady(s, i)
  \/ \E i \in UnitIndices, outcome \in Outcomes : UnitPutAnswer(s, i, outcome)
  \/ CloseResume(s)
  \/ CloseFlushTokenReady(s)
  \/ \E outcome \in Outcomes : CloseFlushPutAnswer(s, outcome)
  \/ CloseSettingsTokenReady(s)
  \/ \E outcome \in Outcomes : CloseSettingsAnswer(s, outcome)

NextPair ==
  \/ \E s \in PairIds : CallerStep(s)
  \/ \E s \in PairIds : SettleStep(s)

SpecPair == InitPair /\ [][NextPair]_vars

\* The answers to the calls of s2 arrive and its queue takes its turns; the
\* calls of s1 may never be answered
SpecPairLive == SpecPair /\ WF_vars(SettleStep("s2"))

\* A stream within one throttle window, every answer of the token endpoint
\* and of the card endpoints possible
LiveEnv ==
  [name |-> "live", throttle |-> 0,
   maxStarts |-> 1, maxUpdates |-> LiveUpdates, maxElapsed |-> 0,
   texts |-> {<<"a">>}, finals |-> {NULL, <<"b">>}, tokenAnswers |-> SessionTokenAnswers]

\* The session is new and built with updateThrottleMs = 0, or it was built
\* with the default throttle, has started and is one failure short of its
\* circuit breaker; the token of the application is cached or it is not
InitLive ==
  /\ now = ClockStart
  /\ lastTokenCacheCleanup = ClockStart
  /\ tokenCalls = [n |-> 0, calls |-> <<>>]
  /\ clientCache = <<>>
  /\ clientCalls = [n |-> 0, op |-> "none", accountId |-> NoAccountId, threw |-> FALSE,
                    result |-> 0, before |-> <<>>]
  /\ nextClient = 1
  /\ calc = NoCalc
  /\ env = LiveEnv
  /\ tokenCache \in {<<>>, StoreToken(<<>>, TokenKey(SessionCreds),
                                      [code |-> 0, token |-> "t1", expire |-> NoExpire],
                                      ClockStart)}
  /\ \/ /\ sess = [s \in SessionIds |-> NewSession(SessionCreds, env.throttle)]
        /\ remote = [cards |-> 0, messages |-> 0]
     \/ /\ sess = [s \in SessionIds |-> WornSession]
        /\ remote = [cards |-> 1, messages |-> 1]

\* The steps of session s that the event loop takes when a promise settles,
\* the answers of the token endpoint and the return of update() included
AnswerStep(s) ==
  \/ SettleStep(s)
  \/ \E i \in UnitIndices, data \in SessionTokenAnswers : UnitTokenAnswer(s, i, data)
  \/ \E data \in SessionTokenAnswers : CloseFlushTokenAnswer(s, data)
  \/ \E data \in SessionTokenAnswers : CloseSettingsTokenAnswer(s, data)
  \/ \E i \in UnitIndices : UpdateReturn(s, i)

NextLive ==
  \/ \E s \in SessionIds : CallerStep(s)
  \/ \E s \in SessionIds : AnswerStep(s)

\* Every network call returns or fails, and the event loop runs what is ready
SpecLive == InitLive /\ [][NextLive]_vars /\ WF_vars(\E s \in SessionIds : AnswerStep(s))

\* The pure functions, each input on its own
InitPure ==
  /\ now = ClockStart
  /\ tokenCache = <<>>
  /\ lastTokenCacheCleanup = ClockStart
  /\ tokenCalls = [n |-> 0, calls |-> <<>>]
  /\ clientCache = <<>>
  /\ clientCalls = [n |-> 0, op |-> "none", accountId |-> NoAccountId, threw |-> FALSE,
                    result |-> 0, before |-> <<>>]
  /\ nextClient = 1
  /\ remote = [cards |-> 0, messages |-> 0]
  /\ env = NoSessionEnv
  /\ sess = <<>>
  /\ \/ \E d \in DomainInputs :
          calc = [op |-> "domain", done |-> FALSE, domain |-> d, client |-> Undef, apiBase |-> Undef]
     \/ \E t \in SummaryTexts :
          calc = [op |-> "summary", done |-> FALSE, text |-> t, summary |-> <<>>]

NextPure ==
  \/ ResolveDomains
  \/ SummariseFinalText

SpecPure == InitPure /\ [][NextPure]_vars

----------------------------------------------------------------------------
(* Properties *)

\* The content-replace calls the remote has answered, in order
ContentWire(r) == SelectSeq(r.wire, LAMBDA w : w.kind = "content")

\* The content-replace calls sent by update()
UpdateWire(r) == SelectSeq(r.wire, LAMBDA w : w.by = "update")

\* The answered content-replace calls that carry the text of update call i
ContentFrom(r, i) == {k \in 1..Len(r.wire) : r.wire[k].kind = "content" /\ r.wire[k].src = i}

\* update calls i and i + 1 of r were made within one throttle window
WithinWindow(r, i) ==
  /\ i \in 1..(Len(r.ucalls) - 1)
  /\ r.ucalls[i + 1].t - r.ucalls[i].t < r.updateThrottleMs

\* close() has returned and every network call of the session succeeded
ClosedCleanly(r) == r.closing.pc = "returned" /\ r.failures = 0 /\ r.raised = {}

\* C1: the content-replace calls of update() reach the remote in the order in
\* which their throttle-accepted update() calls were invoked, each carrying
\* the text of its call, and a session never has two network mutations
\* (content or settings) in flight at once.
C1_OrderedAndSerialized ==
  \A s \in SessionIds :
    LET r == sess[s]
        c == ContentWire(r)
    IN /\ InFlight(r) <= 1
       /\ \A i, j \in 1..Len(c) :
            (i < j /\ c[j].by = "update") => (c[i].by = "update" /\ c[i].src < c[j].src)
       /\ \A i \in 1..Len(c) :
            c[i].by = "update" =>
              /\ c[i].src \in 1..Len(r.ucalls)
              /\ IsUnit(r.ucalls[c[i].src])
              /\ c[i].content = r.ucalls[c[i].src].text

\* Two updates have reached the remote and a third mutation is in flight
C1_Witness ==
  \E s \in SessionIds :
    /\ Len(UpdateWire(sess[s])) >= 2
    /\ InFlight(sess[s]) = 1

\* C2: every mutation of one session carries a sequence strictly greater than
\* every earlier mutation's, and no two mutations share the idempotency token
\* built from the card id and the sequence.
C2_SequenceStrictlyIncreasing ==
  \A s \in SessionIds :
    LET w == sess[s].wire
    IN \A i, j \in 1..Len(w) :
         i < j => (w[i].sequence < w[j].sequence /\ w[i].uuid # w[j].uuid)

\* C3 as stated: update(a) then update(b) within one throttle window result in
\* exactly one content mutation, which carries b; a is never sent.
C3_CollapseToOne ==
  \A s \in SessionIds :
    LET r == sess[s]
    IN \A i \in 1..Len(r.ucalls) :
         WithinWindow(r, i) =>
           /\ ContentFrom(r, i) = {}
           /\ Cardinality(ContentFrom(r, i + 1)) <= 1
           /\ ClosedCleanly(r) /\ r.closing.finalText = NULL /\ i + 1 = Len(r.ucalls)
                => Cardinality(ContentFrom(r, i + 1)) = 1

\* C3 as the code has it: of update(a) then update(b) within one throttle
\* window, b is carried by at most one content mutation, a is carried by one
\* only if update(a) was throttle-accepted, and then update(b) is throttled:
\* it sends nothing itself and b waits for the flush of close().
C3_LeadingEdgeThrottle ==
  \A s \in SessionIds :
    LET r == sess[s]
    IN \A i \in 1..Len(r.ucalls) :
         WithinWindow(r, i) =>
           /\ Cardinality(ContentFrom(r, i + 1)) <= 1
           /\ \A k \in ContentFrom(r, i + 1) : r.wire[k].content = r.ucalls[i + 1].text
           /\ \A k \in ContentFrom(r, i) : r.wire[k].by = "update" /\ IsUnit(r.ucalls[i])
           /\ IsUnit(r.ucalls[i]) => ~IsUnit(r.ucalls[i + 1])
           /\ ~IsUnit(r.ucalls[i + 1]) => \A k \in ContentFrom(r, i + 1) : r.wire[k].by = "close"

\* update(a) was accepted and sent, update(b) came within its window, and
\* close() has flushed b: two content mutations for the pair
C3_Witness ==
  \E s \in SessionIds :
    LET r == sess[s]
    IN \E i \in 1..Len(r.ucalls) :
         /\ WithinWindow(r, i)
         /\ ContentFrom(r, i) # {}
         /\ ContentFrom(r, i + 1) # {}

\* C4: once close() without finalText has returned on a session whose network
\* calls all succeeded, the last content-replace call carries the text of the
\* most recent update() call made while the session was active.
C4_LatestFlushed ==
  \A s \in SessionIds :
    LET r == sess[s]
        c == ContentWire(r)
    IN (ClosedCleanly(r) /\ r.closing.finalText = NULL /\ r.ucalls # <<>>) =>
         /\ c # <<>>
         /\ c[Len(c)].content = r.ucalls[Len(r.ucalls)].text

\* The mutations close() has sent
CloseWire(r, kind) == {k \in 1..Len(r.wire) : r.wire[k].by = "close" /\ r.wire[k].kind = kind}

\* A step of session s is a close() call
IsCloseCall(s) == \E finalText \in FinalTexts : CloseCall(s, finalText)

\* C5: however many close() calls a session gets, they send at most one
\* content flush and at most one settings update in total, and a close() call
\* on a closed session changes nothing: no network call, same sequence,
\* currentText and errorCount (no step that changes a session, the remote or
\* the token cache is a close() call on a closed session).
C5_CloseOnce ==
  /\ [](\A s \in SessionIds :
          /\ Cardinality(CloseWire(sess[s], "content")) <= 1
          /\ Cardinality(CloseWire(sess[s], "settings")) <= 1)
  /\ [][\A s \in SessionIds :
          (sess[s].closed /\ <<sess, remote, tokenVars>>' # <<sess, remote, tokenVars>>)
            => ~IsCloseCall(s)]_vars

\* close() has returned after sending both its flush and its settings update,
\* and the session stays open to further close() calls
C5_Witness ==
  \E s \in SessionIds :
    /\ sess[s].closing.pc = "returned"
    /\ CloseWire(sess[s], "content") # {}
    /\ CloseWire(sess[s], "settings") # {}
    /\ ENABLED IsCloseCall(s)

\* isActive()
isActive_StateOnly(r) == r.state # NoState

isActive(r) == r.state # NoState /\ ~r.closed

\* the units of update() that hold a token request or a PUT
UnitsRunning(r) == {i \in 1..Len(r.ucalls) : r.ucalls[i].st \in {"tokHit", "tokNet", "put"}}

\* C6: once errorCount has reached 5 the session is not active, no unit of
\* update() runs or is enqueued any more, no content mutation of update()
\* reaches the network, and closed and errorCount are never reset.
C6_CircuitBreaker ==
  /\ [](\A s \in SessionIds :
          sess[s].errorCount >= MAX_ERRORS =>
            (~isActive(sess[s]) /\ UnitsRunning(sess[s]) = {}))
  /\ [][\A s \in SessionIds :
          /\ sess[s].errorCount >= MAX_ERRORS =>
               /\ Len(sess'[s].ucalls) = Len(sess[s].ucalls)
               /\ UpdateWire(sess'[s]) = UpdateWire(sess[s])
               /\ UnitsRunning(sess'[s]) = {}
          /\ sess[s].closed => sess'[s].closed
          /\ sess'[s].errorCount >= sess[s].errorCount]_vars

\* Five failed update() mutations have tripped the breaker; close() was never called
C6_Witness ==
  \E s \in SessionIds :
    /\ sess[s].errorCount = MAX_ERRORS
    /\ Cardinality({i \in 1..Len(sess[s].ucalls) : sess[s].ucalls[i].st = "failed"}) = MAX_ERRORS
    /\ sess[s].closing.pc = "idle"
    /\ sess[s].closed

\* C7: a failed mutation of update() or close() is never raised to the
\* caller; each failure adds exactly one to errorCount and reaches the error
\* callback; and a failed unit does not stop the queue: a unit is skipped only
\* on a closed session.
C7_ErrorsContained ==
  \A s \in SessionIds :
    LET r == sess[s]
    IN /\ r.raised \cap {"update", "close"} = {}
       /\ r.errorCount = r.failures
       /\ r.errorCb >= r.errorCount
       /\ \A i \in 1..Len(r.ucalls) : r.ucalls[i].st = "skipped" => r.closed

\* A unit failed, a later unit was sent and answered, and close() failed too
C7_Witness ==
  \E s \in SessionIds :
    LET r == sess[s]
    IN /\ \E i, j \in 1..Len(r.ucalls) :
            i < j /\ r.ucalls[i].st = "failed" /\ r.ucalls[j].st = "ok"
       /\ r.closing.pc = "returned"
       /\ r.errorCount >= 3

\* C8: whatever createFeishuClient, getFeishuClient and clearClientCache calls
\* are made, with whatever accountIds, the client cache never holds more than
\* 50 entries.
C8_CacheBounded == Len(clientCache) <= CLIENT_CACHE_MAX_SIZE

\* The last operation was a createFeishuClient that missed
LastCreateMissed ==
  /\ clientCalls.op = "create"
  /\ ~clientCalls.threw
  /\ clientCalls.result \notin {clientCalls.before[i].client : i \in 1..Len(clientCalls.before)}

\* The entries of cache `before` that are no longer in the client cache
Gone(before) ==
  {i \in 1..Len(before) : before[i].client \notin {clientCache[j].client : j \in 1..Len(clientCache)}}

\* C9: a createFeishuClient that misses on a cache of 50 entries evicts the
\* entry with the smallest lastAccess, and no other entry than the one it
\* replaces.
C9_EvictsOldest ==
  (LastCreateMissed /\ Len(clientCalls.before) = CLIENT_CACHE_MAX_SIZE) =>
    LET before == clientCalls.before
        oldest == OldestIndex(before)
    IN /\ oldest \in Gone(before)
       /\ \A i \in Gone(before) : i = oldest \/ before[i].accountId = clientCalls.accountId
       /\ \A i \in 1..Len(before) : before[i].lastAccess >= before[oldest].lastAccess

\* C10: getToken returns from the cache only a token whose expiresAt is more
\* than 60 seconds after the time of the call; for an entry that is missing
\* or expires within 60 seconds it makes exactly one exchange request and
\* hands back the token of that exchange, which is the token then cached.
C10_TokenFreshness ==
  \A i \in 1..Len(tokenCalls.calls) :
    LET c == tokenCalls.calls[i]
    IN /\ c.via = "cache" =>
            /\ c.exp > c.at + TOKEN_SAFETY_MARGIN_MS
            /\ c.requests = 0
            /\ c.pc = "returned"
       /\ (c.exp = NoExpire \/ c.exp <= c.at + TOKEN_SAFETY_MARGIN_MS) =>
            /\ c.via = "exchange"
            /\ c.requests = 1
       /\ c.pc = "returned" =>
            /\ ~Falsy(c.token)
            /\ c.key \in DOMAIN tokenCache => tokenCache[c.key].token = c.token

\* A call found an entry that had exactly 60 seconds left, exchanged, and returned
\* the new token
C10_Witness ==
  \E i \in 1..Len(tokenCalls.calls) :
    LET c == tokenCalls.calls[i]
    IN /\ c.exp = c.at + TOKEN_SAFETY_MARGIN_MS
       /\ c.via = "exchange"
       /\ c.pc = "returned"
       /\ c.token = "t1"

\* The handles held by a client cache
Clients(cache) == {cache[i].client : i \in 1..Len(cache)}

\* The last operation was a createFeishuClient that returned
LastCreateReturned == clientCalls.op = "create" /\ ~clientCalls.threw

\* The cache held, before the last call, an entry for its accountId with the
\* call's appId, appSecret and domain
MatchedBefore ==
  \E i \in 1..Len(clientCalls.before) :
    /\ clientCalls.before[i].accountId = clientCalls.accountId
    /\ clientCalls.before[i].config.appId = clientCalls.config.appId
    /\ clientCalls.before[i].config.appSecret = clientCalls.config.appSecret
    /\ clientCalls.before[i].config.domain = clientCalls.config.domain

\* C11: createFeishuClient returns the cached handle, constructing nothing
\* and leaving the cache as it was but for the entry's lastAccess, iff the
\* cache holds an entry for the accountId with the same appId, appSecret and
\* domain; otherwise it returns a new handle, stored with the call's
\* configuration as the only entry of that accountId.
C11_HitIffSameConfig ==
  LastCreateReturned =>
    LET before == clientCalls.before
        own == {i \in 1..Len(clientCache) : clientCache[i].accountId = clientCalls.accountId}
    IN /\ Cardinality(own) = 1
       /\ \A i \in own :
            /\ clientCache[i].client = clientCalls.result
            /\ clientCache[i].config = clientCalls.config
       /\ MatchedBefore =>
            /\ clientCalls.result \in Clients(before)
            /\ Len(clientCache) = Len(before)
            /\ \A i \in 1..Len(before) :
                 /\ clientCache[i].accountId = before[i].accountId
                 /\ clientCache[i].client = before[i].client
                 /\ clientCache[i].config = before[i].config
                 /\ before[i].accountId # clientCalls.accountId =>
                      clientCache[i].lastAccess = before[i].lastAccess
       /\ ~MatchedBefore =>
            /\ clientCalls.result \notin Clients(before)
            /\ clientCalls.result = nextClient - 1

\* A call whose accountId, appId and appSecret match a cached entry and whose
\* domain alone differs got a new handle
C11_Witness ==
  /\ LastCreateReturned
  /\ ~MatchedBefore
  /\ \E i \in 1..Len(clientCalls.before) :
       /\ clientCalls.before[i].accountId = clientCalls.accountId
       /\ clientCalls.before[i].config.appId = clientCalls.config.appId
       /\ clientCalls.before[i].config.appSecret = clientCalls.config.appSecret
  /\ clientCalls.result \notin Clients(clientCalls.before)

\* close() has chosen its final text
CloseDecided(r) == r.closing.pc \notin {"idle", "wait"}

\* C12: close() takes as final text its finalText argument, else the pending
\* throttled text, else currentText; if that text differs from currentText,
\* the empty string included, close() sends exactly one content-replace call
\* carrying it, and if it equals currentText it sends none.
C12_FlushIffDifferent ==
  \A s \in SessionIds :
    LET r == sess[s]
        c == r.closing
        sent == CloseWire(r, "content")
    IN CloseDecided(r) =>
         /\ c.text = Coalesce(Coalesce(c.finalText, r.pendingText), c.shown)
         /\ \A k \in sent : r.wire[k].content = c.text
         /\ c.text = c.shown => sent = {}
         /\ (c.text # c.shown /\ ClosedCleanly(r)) => Cardinality(sent) = 1

\* The failures of session r that were token failures: no mutation was sent
TokenFailures(r) == r.failures - Cardinality({k \in 1..Len(r.wire) : ~r.wire[k].ok})

\* C13: the first close() of an active session sends the settings update
\* whether or not its content flush succeeded; that update is the last
\* network mutation of the session, carries a sequence greater than every
\* content mutation's, and nothing of close() is sent before every enqueued
\* unit has finished or been skipped.
C13_SettingsLast ==
  \A s \in SessionIds :
    LET r == sess[s]
        w == r.wire
        settings == CloseWire(r, "settings")
    IN /\ (r.closing.pc = "returned" /\ TokenFailures(r) = 0) => settings # {}
       /\ \A k \in settings :
            /\ k = Len(w)
            /\ \A j \in 1..(k - 1) : w[j].kind = "content" /\ w[j].sequence < w[k].sequence
       /\ CloseDecided(r) => QueueDrained(r)

\* C14: a start() that fails at its token exchange, its card creation or its
\* message send throws to its caller and assigns nothing: the session has a
\* CardState only if some start() returned, and a session without one is not
\* active, has enqueued no update, has begun no close and has sent no mutation.
C14_FailedStartLeavesUnstarted ==
  \A s \in SessionIds :
    LET r == sess[s]
    IN /\ (\E i \in 1..Len(r.starts) : r.starts[i].pc = "thrown") => "start" \in r.raised
       /\ r.state # NoState => \E i \in 1..Len(r.starts) : r.starts[i].pc = "returned"
       /\ r.state = NoState =>
            /\ ~isActive(r)
            /\ ~r.closed
            /\ r.ucalls = <<>>
            /\ r.closing = IdleClose
            /\ r.wire = <<>>
            /\ r.errorCount = 0

\* start() threw at the message send, after its card was created, and the
\* session is left without a CardState, update() and close() being callable
C14_Witness ==
  \E s \in SessionIds :
    LET r == sess[s]
    IN /\ \E i \in 1..Len(r.starts) : r.starts[i].pc = "thrown" /\ r.starts[i].cardId # 0
       /\ \A i \in 1..Len(r.starts) : r.starts[i].pc = "thrown"
       /\ r.state = NoState
       /\ ENABLED IsCloseCall(s)

\* The start() calls of session r that assigned this.state
StartsReturned(r) == {i \in 1..Len(r.starts) : r.starts[i].pc = "returned"}

\* C15: whatever start() calls a session gets, overlapping ones included, its
\* CardState is assigned by at most one of them, at most one initial message
\* is sent, and the CardState is that of the card the message was sent for.
C15_CardStateCreatedOnce ==
  /\ remote.messages <= Cardinality(SessionIds)
  /\ \A s \in SessionIds :
       LET r == sess[s]
       IN /\ Cardinality(StartsReturned(r)) <= 1
          /\ \A i \in StartsReturned(r) : r.state.cardId = r.starts[i].cardId

\* close() has been called on an active session r
CloseCalled(r) == r.closing.pc # "idle"

Phase(r) ==
  IF r.state = NoState THEN (IF r.closed THEN "NONE" ELSE "UNSTARTED")
  ELSE IF r.closed THEN "CLOSED" ELSE "ACTIVE"

\* C17: a session is UNSTARTED, ACTIVE or CLOSED, closed is never true while
\* state is null, and every step leaves the session where it is or moves it
\* from UNSTARTED to ACTIVE or from ACTIVE to CLOSED: closed is never reset,
\* state is never set back to null, and nothing moves a CLOSED session.
C17_OneWayStateMachine ==
  /\ [](\A s \in SessionIds : Phase(sess[s]) \in {"UNSTARTED", "ACTIVE", "CLOSED"})
  /\ [][\A s \in SessionIds :
          \/ Phase(sess'[s]) = Phase(sess[s])
          \/ Phase(sess[s]) = "UNSTARTED" /\ Phase(sess'[s]) = "ACTIVE"
          \/ Phase(sess[s]) = "ACTIVE" /\ Phase(sess'[s]) = "CLOSED"]_vars

\* close() has returned on a session while a second start() is still
\* awaiting the network, and update() and close() can still be called
C17_Witness ==
  \E s \in SessionIds :
    /\ Phase(sess[s]) = "CLOSED"
    /\ sess[s].closing.pc = "returned"
    /\ \E i \in 1..Len(sess[s].starts) : sess[s].starts[i].pc \in {"create", "send"}

\* Call c of getToken threw, and no other call ran between its start and its end
FailedAlone(c) == c.pc = "thrown" /\ c.alone /\ c.ord = tokenCalls.n

\* The exchange answered call c with a non-zero code or without a token
AnswerRejected(c) == c.answer.code # 0 \/ c.answer.token \in {Undef, ""}

\* C18 as stated: a getToken call whose exchange is rejected throws after
\* exactly one request and leaves the token cache as it was before the call.
C18_FailedExchangeLeavesCache ==
  \A i \in 1..Len(tokenCalls.calls) :
    LET c == tokenCalls.calls[i]
    IN /\ (c.answer # NoAnswer /\ AnswerRejected(c)) => (c.pc = "thrown" /\ c.requests = 1)
       /\ FailedAlone(c) => tokenCache = c.before

\* C18 as the code has it: a getToken call whose exchange is rejected throws
\* after exactly one request, and adds and replaces no entry of the token
\* cache; the only entries it removes are those its sweep finds expired at
\* the time of the call.
C18_FailedExchangeAddsNothing ==
  \A i \in 1..Len(tokenCalls.calls) :
    LET c == tokenCalls.calls[i]
    IN /\ (c.answer # NoAnswer /\ AnswerRejected(c)) => (c.pc = "thrown" /\ c.requests = 1)
       /\ c.pc = "thrown" => (c.answer # NoAnswer /\ AnswerRejected(c))
       /\ FailedAlone(c) =>
            /\ \A k \in DOMAIN tokenCache : k \in DOMAIN c.before /\ tokenCache[k] = c.before[k]
            /\ \A k \in DOMAIN c.before \ DOMAIN tokenCache : c.before[k].expiresAt < c.at

\* A call found an entry of its key with less than 60 seconds left, its
\* exchange was rejected, and the entry is still cached
C18_Witness ==
  \E i \in 1..Len(tokenCalls.calls) :
    LET c == tokenCalls.calls[i]
    IN /\ FailedAlone(c)
       /\ c.key \in DOMAIN c.before
       /\ c.key \in DOMAIN tokenCache
       /\ tokenCache[c.key] = c.before[c.key]

\* The last operation was a createFeishuClient without an appId or an appSecret
LastCreateUnconfigured ==
  /\ clientCalls.op = "create"
  /\ \/ clientCalls.config.appId \in {Undef, ""}
     \/ clientCalls.config.appSecret \in {Undef, ""}

\* C19: createFeishuClient called with a missing or empty appId or appSecret
\* throws an error naming the accountId ("default" when none is given) and
\* leaves the client cache as it was, also when the cache is full; no other
\* call throws.
C19_UnconfiguredThrows ==
  /\ LastCreateUnconfigured =>
       /\ clientCalls.threw
       /\ clientCalls.error[2] =
            (IF clientCalls.arg = NoAccountId THEN DefaultAccountId ELSE clientCalls.arg)
       /\ clientCache = clientCalls.before
       /\ Clients(clientCache) \subseteq 1..(nextClient - 1)
  /\ clientCalls.threw => LastCreateUnconfigured

\* The call threw on a full cache that holds no entry of its accountId
C19_Witness ==
  /\ LastCreateUnconfigured
  /\ clientCalls.threw
  /\ Len(clientCalls.before) = CLIENT_CACHE_MAX_SIZE
  /\ clientCalls.accountId \notin Keys(clientCalls.before)
  /\ Len(clientCache) = CLIENT_CACHE_MAX_SIZE

\* C20: clearClientCache(accountId) removes the entry of that accountId, if
\* any, and leaves every other entry as it was, whatever string the accountId
\* is; clearClientCache() empties the cache; neither throws; and
\* getClientCacheSize() returns the number of entries.
C20_ClearRemovesOnlyThatEntry ==
  /\ clientCalls.op = "clear" =>
       /\ ~clientCalls.threw
       /\ clientCalls.accountId = NoAccountId => clientCache = <<>>
       /\ clientCalls.accountId # NoAccountId =>
            clientCache = SelectSeq(clientCalls.before,
                                    LAMBDA e : e.accountId # clientCalls.accountId)
  /\ clientCalls.op = "size" =>
       /\ ~clientCalls.threw
       /\ clientCalls.result = Len(clientCache)
       /\ clientCache = clientCalls.before

\* The custom domains that are base URLs
BaseUrls == {"https://p.example", "https://p.example/"}

\* The root of the REST endpoints of the deployment a client handle is built for
ClientApiBase(domain) ==
  IF domain = "Lark.Domain.Lark" THEN LARK_API_BASE
  ELSE IF domain = "Lark.Domain.Feishu" THEN FEISHU_API_BASE
       ELSE domain \o "/open-apis"

\* C21: for every domain value, "lark" resolves to the Lark deployment,
\* "feishu" or an absent value to the default Feishu deployment, a base URL to
\* that URL without its trailing slashes, and every other value to the default
\* Feishu deployment; the client handle (resolveDomain) and the session's API
\* base (resolveApiBase) resolve the same value to the same deployment.
C21_DomainResolution ==
  (calc.op = "domain" /\ calc.done) =>
    LET d == calc.domain
        deployment == IF d = "lark" THEN "Lark.Domain.Lark"
                      ELSE IF d \in BaseUrls THEN StripTrailingSlashes(d)
                           ELSE "Lark.Domain.Feishu"
    IN /\ calc.client = deployment
       /\ calc.apiBase = ClientApiBase(deployment)
       /\ calc.apiBase = ClientApiBase(calc.client)

\* text.replace(/\n/g, " ").trim(), as the claim states it
CleanText(text) == Trim([i \in 1..Len(text) |-> IF text[i] = "\n" THEN " " ELSE text[i]])

\* C22: for every final text, the summary of close()'s settings update has at
\* most 50 characters and no newline in it; it is the first 47 characters of
\* the newline-replaced, trimmed text followed by "..." when that text is
\* longer than 50 characters, and that text unchanged otherwise.
C22_SummaryTruncated ==
  (calc.op = "summary" /\ calc.done) =>
    LET clean == CleanText(calc.text) IN
    /\ Len(calc.summary) <= 50
    /\ \A i \in 1..Len(calc.summary) : calc.summary[i] # "\n"
    /\ Len(clean) > 50 =>
         calc.summary = [i \in 1..50 |-> IF i <= 47 THEN clean[i] ELSE "."]
    /\ Len(clean) <= 50 => calc.summary = clean

\* A text whose cleaned form is longer than 50 characters, with a newline in
\* its first 47 characters and blanks around it, has been summarised
C22_Witness ==
  /\ calc.op = "summary" /\ calc.done
  /\ Len(CleanText(calc.text)) > 50
  /\ Len(calc.text) > Len(CleanText(calc.text))
  /\ \E i \in 1..47 : CleanText(calc.text)[i] = " "
  /\ Len(calc.summary) = 50

\* The update() calls of r before call i that the throttle accepted
AcceptedBefore(r, i) == {j \in 1..(i - 1) : IsUnit(r.ucalls[j])}

\* The time of the last accepted update() before call i; 0, the initial
\* lastUpdateTime, when there is none
LastAcceptedBefore(r, i) ==
  IF AcceptedBefore(r, i) = {} THEN 0
  ELSE r.ucalls[CHOOSE j \in AcceptedBefore(r, i) : \A k \in AcceptedBefore(r, i) : k <= j].t

\* C23: an update() on an active session less than updateThrottleMs after the
\* last accepted one issues no network call, leaves its text in pendingText
\* (over any earlier pending text) and raises nothing; an update() at least
\* updateThrottleMs after the last accepted one is accepted, clears
\* pendingText and sets lastUpdateTime at once, before its unit runs; so two
\* accepted updates are at least updateThrottleMs apart, requests in flight
\* or not.
C23_Throttle ==
  \A s \in SessionIds :
    LET r == sess[s]
        n == Len(r.ucalls)
    IN /\ \A i \in 1..n :
            LET u == r.ucalls[i]
            IN /\ IsUnit(u) <=> u.t - LastAcceptedBefore(r, i) >= r.updateThrottleMs
               /\ ~IsUnit(u) =>
                    /\ u.urlCard = 0 /\ u.req = NoReq
                    /\ \A k \in 1..Len(r.wire) : ~(r.wire[k].by = "update" /\ r.wire[k].src = i)
       /\ \A i, j \in 1..n :
            (i < j /\ IsUnit(r.ucalls[i]) /\ IsUnit(r.ucalls[j])) =>
              r.ucalls[j].t - r.ucalls[i].t >= r.updateThrottleMs
       /\ r.lastUpdateTime = LastAcceptedBefore(r, n + 1)
       /\ r.pendingText = IF n > 0 /\ ~IsUnit(r.ucalls[n]) THEN r.ucalls[n].text ELSE NULL
       /\ "update" \notin r.raised

\* With the request of an accepted update still in flight, a second update
\* was throttled and a third, a throttle window after the first, accepted:
\* pendingText is cleared and the third unit waits in the queue
C23_Witness ==
  \E s \in SessionIds :
    LET r == sess[s]
    IN /\ r.updateThrottleMs > 0
       /\ Len(r.ucalls) = 3
       /\ UnitInFlight(r.ucalls[1])
       /\ ~IsUnit(r.ucalls[2])
       /\ r.ucalls[3].st = "wait"
       /\ r.ucalls[3].t - r.ucalls[1].t = r.updateThrottleMs
       /\ r.pendingText = NULL

\* A step of session s is an update() call
IsUpdateCall(s) == \E text \in Texts : UpdateCall(s, text)

\* C24: an update() call on a session that has not started or is closed
\* changes nothing: no network call, and pendingText, lastUpdateTime, the
\* queue, sequence, currentText and errorCount stay as they are. That is, no
\* step that changes a session, the remote or the token cache is an update()
\* call on such a session.
C24_UpdateNoOpWhenInactive ==
  [][\A s \in SessionIds :
       ((sess[s].state = NoState \/ sess[s].closed)
          /\ <<sess, remote, tokenVars>>' # <<sess, remote, tokenVars>>)
         => ~IsUpdateCall(s)]_vars

\* A session closed with a request in flight and a pending text, open to
\* further update() calls
C24_Witness ==
  \E s \in SessionIds :
    LET r == sess[s]
    IN /\ r.closed
       /\ r.pendingText # NULL
       /\ \E i \in 1..Len(r.ucalls) : UnitInFlight(r.ucalls[i])
       /\ Len(r.ucalls) < env.maxUpdates
       /\ ENABLED IsUpdateCall(s)

UnitsBegun(r) == {i \in 1..Len(r.ucalls) : r.ucalls[i].st \in {"tokHit", "tokNet", "put", "ok", "failed"}}

\* close() of r has begun its final flush
FlushBegun(r) ==
  /\ r.closing.pc \notin {"idle", "wait"}
  /\ r.closing.text # <<>> /\ r.closing.text # r.closing.shown

\* The content of the last content-replace call r has attempted; the empty
\* text of start() when there is none
LastAttempted(r) ==
  IF FlushBegun(r) THEN r.closing.text
  ELSE IF UnitsBegun(r) = {} THEN <<>>
       ELSE r.ucalls[CHOOSE i \in UnitsBegun(r) : \A j \in UnitsBegun(r) : j <= i].text

\* C26: currentText is set to the text being sent before the network call of
\* every content mutation, in update() and in the final flush of close(): in
\* every state of a started session currentText is the content of the last
\* content-replace call attempted, whether it succeeded, failed or is still
\* in flight.
C26_CurrentTextOptimistic ==
  \A s \in SessionIds :
    sess[s].state # NoState => sess[s].state.currentText = LastAttempted(sess[s])

\* data.expire ?? 7200
TtlOf(data) == IF data.expire = NoExpire THEN DEFAULT_TOKEN_TTL_S ELSE data.expire

\* C27: every token getToken returns, from the cache or from an exchange, has
\* at least 60 seconds of validity left when it is returned, whatever ttl the
\* server reported; an entry whose expiry has passed is never returned.
C27_ReturnedTokenHasMargin ==
  \A i \in 1..Len(tokenCalls.calls) :
    LET c == tokenCalls.calls[i]
    IN c.pc = "returned" =>
         /\ c.via = "cache" => c.exp - c.at >= TOKEN_SAFETY_MARGIN_MS
         /\ c.via = "exchange" => TtlOf(c.answer) * 1000 >= TOKEN_SAFETY_MARGIN_MS

\* The call a getToken step has just begun, and the call that has just ended
LastTokenCall(calls) == calls.calls[Len(calls.calls)]

\* The look-up of getToken, step by step: a call with creds looks up
\* {domain, or "feishu" when absent}|{appId}; an entry with more than 60
\* seconds left is returned at once, with no request, and stays as it is;
\* otherwise one exchange request is made.
TokenLookUp ==
  \A creds \in TokenCreds :
    (tokenCalls'.n = tokenCalls.n + 1 /\ GetTokenCall(creds)) =>
      LET c == LastTokenCall(tokenCalls')
          key == (IF creds.domain = Undef THEN "feishu" ELSE creds.domain) \o "|" \o creds.appId
          live == key \in DOMAIN tokenCache /\ tokenCache[key].expiresAt > now + 60000
      IN /\ c.key = key
         /\ live => /\ c.pc = "returned" /\ c.requests = 0
                    /\ c.token = tokenCache[key].token
                    /\ key \in DOMAIN tokenCache' /\ tokenCache'[key] = tokenCache[key]
         /\ ~live => c.pc = "fetch" /\ c.requests = 1

\* Call i is answered by a successful exchange in this step
ExchangeSucceeds(i) ==
  /\ i \in 1..Len(tokenCalls.calls)
  /\ tokenCalls.calls[i].pc = "fetch"
  /\ tokenCalls'.n = tokenCalls.n
  /\ tokenCalls' # tokenCalls
  /\ LastTokenCall(tokenCalls').ord = tokenCalls.calls[i].ord
  /\ LastTokenCall(tokenCalls').pc = "returned"

\* The entry a successful exchange stores now for the call it answers
StoredEntry(c) == [token |-> c.answer.token, expiresAt |-> now + TtlOf(c.answer) * 1000]

\* No call was in flight when call c began and none has begun since
RanAlone(c) == c.alone /\ c.ord = tokenCalls.n

\* C28 as stated: getToken looks up {domain or "feishu"}|{appId}; a live entry
\* is returned with no request and is left unchanged; otherwise a successful
\* exchange sets the entry of that key to the new token with expiresAt = now +
\* ttl * 1000, ttl being the reported expire or 7200, and the entries of
\* every other key are as they were before the call.
C28_LookUpThenStore ==
  [][/\ TokenLookUp
     /\ \A i \in 1..MaxTokenCalls :
          ExchangeSucceeds(i) =>
            LET c == LastTokenCall(tokenCalls')
                b == tokenCalls.calls[i].before
            IN /\ c.key \in DOMAIN tokenCache' /\ tokenCache'[c.key] = StoredEntry(c)
               /\ c.token = c.answer.token
               /\ RanAlone(tokenCalls.calls[i]) =>
                    /\ DOMAIN tokenCache' \ {c.key} = DOMAIN b \ {c.key}
                    /\ \A k \in DOMAIN b \ {c.key} : tokenCache'[k] = b[k]]_vars

\* C28 as the code has it: the same, except that of the entries of other
\* keys, those already expired when the call began may have been removed by
\* the sweep the call begins with; the store itself touches no other key.
C28_LookUpSweepThenStore ==
  [][/\ TokenLookUp
     /\ \A i \in 1..MaxTokenCalls :
          ExchangeSucceeds(i) =>
            LET c == LastTokenCall(tokenCalls')
                b == tokenCalls.calls[i].before
            IN /\ c.key \in DOMAIN tokenCache' /\ tokenCache'[c.key] = StoredEntry(c)
               /\ c.token = c.answer.token
               /\ DOMAIN tokenCache' \ {c.key} = DOMAIN tokenCache \ {c.key}
               /\ \A k \in DOMAIN tokenCache \ {c.key} : tokenCache'[k] = tokenCache[k]
               /\ RanAlone(tokenCalls.calls[i]) =>
                    /\ DOMAIN tokenCache' \ {c.key} \subseteq DOMAIN b
                    /\ \A k \in DOMAIN tokenCache' \ {c.key} : tokenCache'[k] = b[k]
                    /\ \A k \in DOMAIN b \ (DOMAIN tokenCache' \cup {c.key}) :
                         b[k].expiresAt < tokenCalls.calls[i].at]_vars

\* A call with no ttl in the answer of its exchange has just stored its token
\* for 7200 seconds beside the live entry of another key
C28_Witness ==
  /\ tokenCalls.n > 0
  /\ tokenCalls.calls # <<>>
  /\ LET c == LastTokenCall(tokenCalls)
     IN /\ c.pc = "returned" /\ c.via = "exchange"
        /\ c.answer.expire = NoExpire
        /\ c.key \in DOMAIN tokenCache
        /\ tokenCache[c.key] = [token |-> c.token, expiresAt |-> now + DEFAULT_TOKEN_TTL_S * 1000]
        /\ \E k \in DOMAIN tokenCache : k # c.key /\ tokenCache[k].expiresAt > now

\* A getToken call begins in this step
TokenCallBegins == tokenCalls'.n = tokenCalls.n + 1

\* C29: a sweep of the token cache runs at the start of a getToken call, and
\* only when at least 5 minutes have passed since the previous sweep (since
\* module load for the first); it removes every entry whose expiresAt is
\* before the current time and no other, so that right after it no entry of
\* the cache has expired; between sweeps no entry is removed.
C29_SweepEveryFiveMinutes ==
  [][LET swept == lastTokenCacheCleanup' # lastTokenCacheCleanup
         due == now - lastTokenCacheCleanup >= 5 * 60 * 1000
     IN /\ swept =>
             /\ TokenCallBegins /\ due
             /\ lastTokenCacheCleanup' = now
             /\ DOMAIN tokenCache' = {k \in DOMAIN tokenCache : ~(tokenCache[k].expiresAt < now)}
             /\ \A k \in DOMAIN tokenCache' :
                  tokenCache'[k] = tokenCache[k] /\ tokenCache'[k].expiresAt >= now
        /\ (TokenCallBegins /\ due) => swept
        /\ ~swept => \A k \in DOMAIN tokenCache : k \in DOMAIN tokenCache']_vars

\* The sweep of the call in flight has just removed an expired entry and kept
\* one that has not expired
C29_Witness ==
  /\ tokenCalls.calls # <<>>
  /\ LET c == LastTokenCall(tokenCalls)
     IN /\ c.pc = "fetch"
        /\ c.at = now /\ lastTokenCacheCleanup = now
        /\ \E k \in DOMAIN c.before : c.before[k].expiresAt < now /\ k \notin DOMAIN tokenCache
        /\ \E k \in DOMAIN c.before : k \in DOMAIN tokenCache /\ tokenCache[k] = c.before[k]

\* No call of session r is under way
Settled(r) ==
  /\ QueueDrained(r)
  /\ r.closing.pc \in {"idle", "returned"}

\* C30: with two sessions interleaved, a step of one session (a call, an
\* answer, a failure, its circuit breaker tripping) changes no field of the
\* other (no step that changes a session is a step of the other); each
\* session keeps its own order and has at most one mutation in flight; and
\* the update() and close() calls of a session complete whatever
\* the other session does, even when a call of the other never returns.
C30_SessionsIndependent ==
  /\ [][\A t \in PairIds :
          sess'[t] # sess[t] => \A s \in PairIds \ {t} : ~(CallerStep(s) \/ SettleStep(s))]_vars
  /\ [](\A s \in PairIds :
          LET c == ContentWire(sess[s])
          IN /\ InFlight(sess[s]) <= 1
             /\ \A i, j \in 1..Len(c) :
                  (i < j /\ c[j].by = "update") => (c[i].by = "update" /\ c[i].src < c[j].src)
             /\ \A i, j \in 1..Len(sess[s].wire) :
                  (i < j /\ sess[s].wire[i].kind = "settings") => sess[s].wire[j].kind = "settings")
  /\ (~Settled(sess["s2"])) ~> Settled(sess["s2"])

\* The circuit breaker of s1 has tripped, and s2 has had its update and its
\* close() answered without an error
C30_Witness ==
  /\ sess["s1"].errorCount = MAX_ERRORS
  /\ sess["s1"].closed
  /\ sess["s1"].closing.pc = "idle"
  /\ sess["s2"].errorCount = 0
  /\ sess["s2"].closing.pc = "returned"
  /\ UpdateWire(sess["s2"]) # <<>>
  /\ CloseWire(sess["s2"], "settings") # {}

\* C31: when every network call returns or fails, every close() call that
\* passed its guard returns, however many updates are queued and whichever
\* calls fail, and it raises nothing to its caller; and an update() call has
\* returned from `await this.queue` only if its own unit and every unit
\* enqueued before it has finished or was skipped.
C31_Termination ==
  /\ \A s \in SessionIds :
       (sess[s].closing.pc # "idle") ~> (sess[s].closing.pc = "returned")
  /\ [](\A s \in SessionIds :
          /\ "close" \notin sess[s].raised
          /\ \A i \in sess[s].resumed :
               \A j \in 1..i : Finished(sess[s].ucalls[j]))

\* close() has returned after a failure of its own, behind a unit that failed
\* and a unit that was skipped, and both update() calls have returned
C31_Witness ==
  \E s \in SessionIds :
    LET r == sess[s]
    IN /\ r.closing.pc = "returned"
       /\ \E i, j \in r.resumed :
            i < j /\ r.ucalls[i].st = "failed" /\ r.ucalls[j].st = "skipped"
       /\ \E k \in CloseWire(r, "settings") : ~r.wire[k].ok

\* The circuit breaker has closed the session: errorCount has reached
\* maxErrors and no close() call has passed its guard, so every failure came
\* from a unit of update()
Tripped(r) == r.errorCount >= MAX_ERRORS /\ r.closing.pc = "idle"

\* C32: once the circuit breaker has tripped through failures of update(), the
\* session stays that way and a close() call, with or without finalText,
\* changes nothing: no content flush and no settings update is ever sent by
\* close(), the pending text stays unsent and nothing more reaches the card.
C32_CloseAfterTripIsNoOp ==
  /\ [](\A s \in SessionIds :
          Tripped(sess[s]) =>
            (CloseWire(sess[s], "content") = {} /\ CloseWire(sess[s], "settings") = {}))
  /\ [][\A s \in SessionIds :
          Tripped(sess[s]) =>
            /\ Tripped(sess'[s])
            /\ sess'[s].wire = sess[s].wire
            /\ sess'[s].pendingText = sess[s].pendingText
            /\ sess'[s].state = sess[s].state
            /\ IsCloseCall(s) => UNCHANGED <<sess, remote, tokenVars>>]_vars

\* The breaker has tripped with a throttled text pending, and close() can be called
C32_Witness ==
  \E s \in SessionIds :
    /\ Tripped(sess[s])
    /\ sess[s].closed
    /\ sess[s].pendingText # NULL
    /\ ENABLED IsCloseCall(s)

\* the units of update() that failed
FailedUnits(r) == {i \in 1..Len(r.ucalls) : r.ucalls[i].st = "failed"}

\* the mutations of close() that failed
CloseFailures(r) == r.failures - Cardinality(FailedUnits(r))

\* C33: in every state errorCount is the number of mutation attempts that
\* failed so far, and it never decreases; errorCount >= 5 implies that the
\* session is closed and not active; and errorCount never exceeds 7: at most 5
\* failures of update units, and at most 2 of a close() that passed its guard.
C33_ErrorCountBounded ==
  /\ [](\A s \in SessionIds :
          LET r == sess[s]
          IN /\ r.errorCount = r.failures
             /\ r.errorCount >= MAX_ERRORS => (r.closed /\ ~isActive(r))
             /\ r.errorCount <= MAX_ERRORS + 2
             /\ Cardinality(FailedUnits(r)) <= MAX_ERRORS
             /\ CloseFailures(r) \in 0..2
             /\ CloseFailures(r) > 0 => CloseDecided(r))
  /\ [][\A s \in SessionIds : sess'[s].errorCount >= sess[s].errorCount]_vars

\* Five units of update() failed, the last one after close() was called, and
\* both mutations of close() failed: errorCount is 7
C33_Witness ==
  \E s \in SessionIds :
    /\ sess[s].errorCount = MAX_ERRORS + 2
    /\ Cardinality(FailedUnits(sess[s])) = MAX_ERRORS
    /\ sess[s].closing.pc = "returned"

\* The last operation was a createFeishuClient that replaced the entry its
\* accountId had in the cache
LastCreateReplaced ==
  /\ LastCreateMissed
  /\ clientCalls.accountId \in Keys(clientCalls.before)

\* C34: when createFeishuClient replaces the entry of an accountId that is
\* cached with another appId, appSecret or domain, the cache keeps its size
\* and the entry of every other accountId stays as it was, also when the cache
\* holds 50 entries.
C34_ReplaceLeavesOthers ==
  LastCreateReplaced =>
    LET before == clientCalls.before
    IN /\ Len(clientCache) = Len(before)
       /\ \A i \in 1..Len(before) :
            before[i].accountId # clientCalls.accountId =>
              \E j \in 1..Len(clientCache) : clientCache[j] = before[i]

====
